---- MODULE Spec2Model ----
(***************************************************************************)
(* A state-machine model of contracts/GeometricCardFHE.sol: the encrypted  *)
(* record store, the request-correlation table, the per-category encrypted *)
(* counters and the two decryption callbacks.                               *)
(*                                                                         *)
(* Every public function is one action.  A call that reverts leaves the    *)
(* contract storage and the event log as they were (EVM semantics); the    *)
(* variable lastCall records which call was made, with which arguments,    *)
(* and how it ended, so that properties can speak about failed calls.      *)
(*                                                                         *)
(* The FHE library and the decryption oracle are outside the repository.   *)
(* A ciphertext handle is modelled by the value it encrypts; the oracle    *)
(* attests, for a request it was sent, the decryption of the handles of    *)
(* that request.  What it answers for an uninitialized handle is not       *)
(* determined by the repository and is left open (any outcome).            *)
(***************************************************************************)
EXTENDS Integers, Sequences, FiniteSets, TLC

\* ------------------------------------------------------------------ bounds
MaxGeometries == 2
MaxRequests == 2
\* frontend: the number of submitRiskData calls that are started
MaxSubmissions == 3

\* the plaintext strings a shape can decrypt to; "" is the empty string
Shapes == {"", "X", "Y"}
\* the (2D, 3D) plaintexts of the records that are submitted
ShapePairs == {<<"", "">>, <<"X", "Y">>}

GeometryIds == 0..MaxGeometries
RequestIds == 0..MaxRequests

\* ------------------------------------------------------------- FHE values
\* euint32: an opaque handle.  init = FALSE is the zero (unset) handle.
NoHandle == [init |-> FALSE, shape |-> "", count |-> 0]
EncShape(s) == [init |-> TRUE, shape |-> s, count |-> 0]

\* euint32 addition wraps at 2^32; a counter grows by one per decrypted record
\* and stays below MaxGeometries * MaxRequests here, so the wrap is not modelled.
isInitialized(h) == h.init
asEuint32(n) == [init |-> TRUE, shape |-> "", count |-> n]
add(a, b) == [init |-> TRUE, shape |-> "", count |-> a.count + b.count]

\* keccak256(abi.encodePacked(category)) as uint256: injective, non-zero and
\* far outside the range of record ids.
bytes32ToUint(b) == b
keccak256(category) ==
  CASE category = "" -> 1001
    [] category = "X" -> 1002
    [] category = "Y" -> 1003
CategoryHash(category) == bytes32ToUint(keccak256(category))

GeometryKeys == GeometryIds \cup {CategoryHash(c) : c \in Shapes}

\* ------------------------------------------------------------- cleartexts
\* The bytes of a callback: the ABI encoding of a string[] or of a uint32.
StringsClear(ss) == [kind |-> "string[]", strs |-> ss, num |-> 0]
Uint32Clear(n) == [kind |-> "uint32", strs |-> <<>>, num |-> n]
NoClear == [kind |-> "none", strs |-> <<>>, num |-> 0]

\* abi.decode(cleartexts, (string[])).  The encoding of a uint32 n read as a
\* string[] has n as the offset of the array: n >= 1 points outside the 32
\* bytes (revert), n = 0 reads the array length 0 from the same word.
DecodeOk(r) == r.ok
abiDecodeStrings(cleartexts) ==
  IF cleartexts.kind = "string[]" THEN [ok |-> TRUE, val |-> cleartexts.strs]
  ELSE IF cleartexts.kind = "uint32" /\ cleartexts.num = 0 THEN [ok |-> TRUE, val |-> <<>>]
  ELSE [ok |-> FALSE, val |-> <<>>]

\* abi.decode(cleartexts, (uint32)).  The encoding of a string[] starts with
\* the offset word 32, which is a valid uint32.
abiDecodeUint32(cleartexts) ==
  IF cleartexts.kind = "uint32" THEN [ok |-> TRUE, val |-> cleartexts.num]
  ELSE IF cleartexts.kind = "string[]" THEN [ok |-> TRUE, val |-> 32]
  ELSE [ok |-> FALSE, val |-> 0]

\* ------------------------------------------------------------------ state
VARIABLES
  geometryCount,               \* uint256 public geometryCount
  encryptedGeometries,         \* mapping(uint256 => EncryptedGeometry)
  decryptedGeometries,         \* mapping(uint256 => DecryptedGeometry)
  encryptedIntersectionCount,  \* mapping(string => euint32)
  intersectionCategories,      \* string[]
  requestToGeometryId,         \* mapping(uint256 => uint256)
  requestedHandles,            \* oracle side: the handles of request i-1 at index i
  events,                      \* the event log
  now,                         \* block.timestamp (one block per submission)
  lastCall,                    \* the last external call and its outcome
  dataStore,                   \* frontend: what contract.getData(key) returns
  clients,                     \* frontend: each client's submitRiskData call
  completed                    \* frontend: the data ids of the completed calls

storage == <<geometryCount, encryptedGeometries, decryptedGeometries,
             encryptedIntersectionCount, intersectionCategories, requestToGeometryId>>
vars == <<geometryCount, encryptedGeometries, decryptedGeometries,
          encryptedIntersectionCount, intersectionCategories, requestToGeometryId,
          requestedHandles, events, now, lastCall, dataStore, clients, completed>>
contractVars == <<storage, requestedHandles, events, now, lastCall>>
frontendVars == <<dataStore, clients, completed>>

EncryptedGeometry(id, e2D, e3D, ts) ==
  [id |-> id, encryptedShape2D |-> e2D, encryptedShape3D |-> e3D, timestamp |-> ts]
DecryptedGeometry(s2D, s3D, dec) ==
  [shape2D |-> s2D, shape3D |-> s3D, isDecrypted |-> dec]

\* id is the call's geometryId or requestId; verified tells, for a callback,
\* whether its proof verifies for its requestId and cleartexts
Call(op, status, id, category, verified) ==
  [op |-> op, status |-> status, id |-> id, category |-> category, verified |-> verified]

\* ---------------------------------------------------------------- frontend
\* App.tsx keeps its data through contract.setData(key, bytes) and
\* contract.getData(key).  A key is "risk_data_keys" or "risk_<dataId>"; a
\* data id (Date.now() and a random suffix) is numbered in the order of its
\* creation.
Clients == {"c1", "c2"}
DataIds == 1..MaxSubmissions
KeysKey == <<"risk_data_keys", 0>>
RiskKey(dataId) == <<"risk_", dataId>>
StoreKeys == {KeysKey} \cup {RiskKey(d) : d \in DataIds}

\* bytes: the empty bytes of a key never set, or the UTF-8 bytes of a JSON text
EmptyBytes == [length |-> 0, json |-> <<>>]
\* ethers.toUtf8Bytes(JSON.stringify(v)): at least the two bytes of "[]"
toUtf8BytesOfJson(v) == [length |-> 2 + Len(v), json |-> v]
\* lines 173-181: keys = [] unless the stored bytes are not empty
parseKeys(keysBytes) ==
  IF keysBytes.length > 0 THEN keysBytes.json ELSE <<>>

setData(store, key, bytes) == [store EXCEPT ![key] = bytes]
getData(store, key) == store[key]

\* one submitRiskData call of a client: where it is (at which await), its
\* dataId and its local array keys
ClientState(pc, dataId, keys) == [pc |-> pc, dataId |-> dataId, keys |-> keys]

Init ==
  /\ geometryCount = 0
  /\ encryptedGeometries = [k \in GeometryKeys |-> EncryptedGeometry(0, NoHandle, NoHandle, 0)]
  /\ decryptedGeometries = [k \in GeometryKeys |-> DecryptedGeometry("", "", FALSE)]
  /\ encryptedIntersectionCount = [c \in Shapes |-> NoHandle]
  /\ intersectionCategories = <<>>
  /\ requestToGeometryId = [r \in RequestIds |-> 0]
  /\ requestedHandles = <<>>
  /\ events = <<>>
  /\ now = 0
  /\ lastCall = Call("constructor", "ok", 0, "", FALSE)
  /\ dataStore = [k \in StoreKeys |-> EmptyBytes]
  /\ clients = [c \in Clients |-> ClientState("idle", 0, <<>>)]
  /\ completed = {}

\* ----------------------------------------------------------------- oracle
\* FHE.requestDecryption: the library numbers the requests of this contract
\* 0, 1, 2, ... and remembers the handles of each.
NextRequestId == Len(requestedHandles)
Issued(requestId) == requestId < Len(requestedHandles)
HandlesOf(requestId) == requestedHandles[requestId + 1]

\* The cleartexts the oracle attests for an issued request: the decryption of
\* its handles.  Unset handles have no defined plaintext: any answer.
TrueCleartexts(requestId) ==
  LET hs == HandlesOf(requestId) IN
  IF Len(hs) = 2
    THEN IF isInitialized(hs[1]) /\ isInitialized(hs[2])
           THEN {StringsClear(<<hs[1].shape, hs[2].shape>>)}
           ELSE {StringsClear(p) : p \in ShapePairs}
    ELSE {Uint32Clear(hs[1].count)}

\* A proof names its signer and what was signed.
Proof(signer, requestId, cleartexts) ==
  [signer |-> signer, requestId |-> requestId, cleartexts |-> cleartexts]
OracleProofs ==
  UNION {{Proof("oracle", r, c) : c \in TrueCleartexts(r)} :
           r \in {q \in RequestIds : Issued(q)}}
ForgedProof == Proof("forger", 0, NoClear)

\* FHE.checkSignatures(requestId, cleartexts, proof)
checkSignatures(requestId, cleartexts, proof) ==
  /\ proof.signer = "oracle"
  /\ proof.requestId = requestId
  /\ proof.cleartexts = cleartexts

\* cleartexts tried by a caller that is not the oracle
SampleCleartexts == {StringsClear(<<"X", "Y">>), Uint32Clear(1)}

\* ------------------------------------------------------------------ views
getDecryptedGeometry(geometryId) ==
  <<decryptedGeometries[geometryId].shape2D,
    decryptedGeometries[geometryId].shape3D,
    decryptedGeometries[geometryId].isDecrypted>>

getEncryptedIntersectionCount(category) == encryptedIntersectionCount[category]

\* ---------------------------------------------------------------- actions
Reverted(call) ==
  /\ lastCall' = call
  /\ UNCHANGED <<storage, requestedHandles, events, now, frontendVars>>

\* A faulty variant of emptyDecryptedGeometry: the entry is left as it was.
keepDecryptedGeometry(decrypted, newId) == decrypted

\* lines 52-56: the decryption state of the new id is set to the empty one
emptyDecryptedGeometry(decrypted, newId) ==
  [decrypted EXCEPT ![newId] = DecryptedGeometry("", "", FALSE)]

\* A faulty variant of newGeometryId: the id is read before the increment.
newGeometryIdStale(count) == count - 1

\* lines 42-43: geometryCount += 1; newId = geometryCount (count is the
\* incremented counter)
newGeometryId(count) == count

submitEncryptedGeometry(encryptedShape2D, encryptedShape3D) ==
  /\ geometryCount < MaxGeometries
  /\ LET newId == newGeometryId(geometryCount + 1)
         ts == now + 1
     IN
       /\ geometryCount' = geometryCount + 1
       /\ encryptedGeometries' = [encryptedGeometries EXCEPT ![newId] =
            EncryptedGeometry(newId, encryptedShape2D, encryptedShape3D, ts)]
       /\ decryptedGeometries' = emptyDecryptedGeometry(decryptedGeometries, newId)
       /\ events' = Append(events, <<"GeometrySubmitted", newId, ts>>)
       /\ now' = ts
       /\ lastCall' = Call("submitEncryptedGeometry", "ok", newId, "", FALSE)
  /\ UNCHANGED <<encryptedIntersectionCount, intersectionCategories,
                 requestToGeometryId, requestedHandles, frontendVars>>

\* FHE.requestDecryption on these handles: the library accepts initialized
\* handles; what it does with an unset handle is outside the repository
\* (it may revert the call or accept it).
RequestDecryptionOutcomes(ciphertexts) ==
  IF \A i \in 1..Len(ciphertexts) : isInitialized(ciphertexts[i])
    THEN {TRUE}
    ELSE BOOLEAN

\* A faulty variant of recordPending: the table keeps the entry of the latest
\* request only.
recordPendingLatestOnly(table, reqId, subject) ==
  [r \in DOMAIN table |-> IF r = reqId THEN subject ELSE 0]

\* lines 70 and 127: requestToGeometryId[reqId] = subject
recordPending(table, reqId, subject) == [table EXCEPT ![reqId] = subject]

requestGeometryDecryptionStatus(geometryId, oracleAccepts) ==
  IF decryptedGeometries[geometryId].isDecrypted THEN "Already decrypted"
  ELSE IF ~oracleAccepts THEN "Oracle rejected"
  ELSE "ok"

requestGeometryDecryption(geometryId, oracleAccepts) ==
  LET geo == encryptedGeometries[geometryId]
      ciphertexts == <<geo.encryptedShape2D, geo.encryptedShape3D>>
      status == requestGeometryDecryptionStatus(geometryId, oracleAccepts)
      call == Call("requestGeometryDecryption", status, geometryId, "", FALSE)
  IN
  /\ oracleAccepts \in RequestDecryptionOutcomes(ciphertexts)
  /\ IF status # "ok"
       THEN Reverted(call)
       ELSE /\ NextRequestId < MaxRequests
            /\ LET reqId == NextRequestId IN
                 /\ requestedHandles' = Append(requestedHandles, ciphertexts)
                 /\ requestToGeometryId' = recordPending(requestToGeometryId, reqId, geometryId)
            /\ events' = Append(events, <<"DecryptionRequested", geometryId>>)
            /\ lastCall' = call
            /\ UNCHANGED <<geometryCount, encryptedGeometries, decryptedGeometries,
                           encryptedIntersectionCount, intersectionCategories, now,
                           frontendVars>>

\* Faulty variants of decryptGeometryStatus: one applies the callback without
\* verifying its proof, one does not look the request up.
decryptGeometryStatusUnverified(requestId, cleartexts, proof) ==
  LET geometryId == requestToGeometryId[requestId]
      results == abiDecodeStrings(cleartexts)
  IN
  IF geometryId = 0 THEN "Invalid request"
  ELSE IF decryptedGeometries[geometryId].isDecrypted THEN "Already decrypted"
  ELSE IF ~DecodeOk(results) THEN "Decode error"
  ELSE IF Len(results.val) < 2 THEN "Index out of bounds"
  ELSE "ok"

decryptGeometryStatusNoLookup(requestId, cleartexts, proof) ==
  LET geometryId == requestToGeometryId[requestId]
      results == abiDecodeStrings(cleartexts)
  IN
  IF decryptedGeometries[geometryId].isDecrypted THEN "Already decrypted"
  ELSE IF ~checkSignatures(requestId, cleartexts, proof) THEN "Proof verification failed"
  ELSE IF ~DecodeOk(results) THEN "Decode error"
  ELSE IF Len(results.val) < 2 THEN "Index out of bounds"
  ELSE "ok"

\* lines 80-91: the checks of decryptGeometry, in the order of the code
decryptGeometryStatus(requestId, cleartexts, proof) ==
  LET geometryId == requestToGeometryId[requestId]
      results == abiDecodeStrings(cleartexts)
  IN
  IF geometryId = 0 THEN "Invalid request"
  ELSE IF decryptedGeometries[geometryId].isDecrypted THEN "Already decrypted"
  ELSE IF ~checkSignatures(requestId, cleartexts, proof) THEN "Proof verification failed"
  ELSE IF ~DecodeOk(results) THEN "Decode error"
  ELSE IF Len(results.val) < 2 THEN "Index out of bounds"
  ELSE "ok"

\* lines 94-101: create the counter of the category on first use, then add one
incrementCategory(counters, category) ==
  LET current == IF ~isInitialized(counters[category]) THEN asEuint32(0)
                 ELSE counters[category]
  IN [counters EXCEPT ![category] = add(current, asEuint32(1))]

\* A faulty variant of registerCategory: the key is pushed on every callback.
registerCategoryAlways(categories, counters, category) == Append(categories, category)

\* lines 94-97: the key is pushed when its counter is created
registerCategory(categories, counters, category) ==
  IF ~isInitialized(counters[category]) THEN Append(categories, category)
  ELSE categories

\* A faulty variant of callbackGeometryId: the callback is applied to the
\* record of the latest request, whatever its requestId.
callbackGeometryIdLatest(table, requestId) == table[NextRequestId - 1]

\* line 80: the record a callback is applied to
callbackGeometryId(table, requestId) == table[requestId]

\* A faulty variant of categoryOf: the key is the 2D shape.
categoryOf2D(results) == results[1]

\* lines 94-101: the category key is results[1] of Solidity, the 3D shape
categoryOf(results) == results[2]

decryptGeometry(requestId, cleartexts, proof) ==
  LET geometryId == callbackGeometryId(requestToGeometryId, requestId)
      status == decryptGeometryStatus(requestId, cleartexts, proof)
      results == abiDecodeStrings(cleartexts).val
      call == Call("decryptGeometry", status, requestId, "",
                   checkSignatures(requestId, cleartexts, proof))
  IN
  IF status # "ok"
    THEN Reverted(call)
    ELSE /\ decryptedGeometries' = [decryptedGeometries EXCEPT ![geometryId] =
              DecryptedGeometry(results[1], results[2], TRUE)]
         /\ encryptedIntersectionCount' =
              incrementCategory(encryptedIntersectionCount, categoryOf(results))
         /\ intersectionCategories' =
              registerCategory(intersectionCategories, encryptedIntersectionCount,
                               categoryOf(results))
         /\ events' = Append(events, <<"GeometryDecrypted", geometryId>>)
         /\ lastCall' = call
         /\ UNCHANGED <<geometryCount, encryptedGeometries, requestToGeometryId,
                        requestedHandles, now, frontendVars>>

\* A faulty variant of requestIntersectionCountDecryptionStatus: the require
\* of line 121 is missing.
requestIntersectionCountDecryptionStatusUnchecked(category) == "ok"

\* lines 120-121: the counter of the category must be initialized
requestIntersectionCountDecryptionStatus(category) ==
  IF ~isInitialized(encryptedIntersectionCount[category]) THEN "Category not found"
  ELSE "ok"

requestIntersectionCountDecryption(category) ==
  LET count == encryptedIntersectionCount[category]
      ciphertexts == <<count>>
      status == requestIntersectionCountDecryptionStatus(category)
      call == Call("requestIntersectionCountDecryption", status, 0, category, FALSE)
  IN
  IF status # "ok"
    THEN Reverted(call)
    ELSE /\ NextRequestId < MaxRequests
         /\ LET reqId == NextRequestId IN
              /\ requestedHandles' = Append(requestedHandles, ciphertexts)
              /\ requestToGeometryId' =
                   recordPending(requestToGeometryId, reqId, CategoryHash(category))
         /\ lastCall' = call
         /\ UNCHANGED <<geometryCount, encryptedGeometries, decryptedGeometries,
                        encryptedIntersectionCount, intersectionCategories, events, now,
                        frontendVars>>

\* the first registered category whose hash is the given one, if any
RECURSIVE CategoryScan(_, _, _)
CategoryScan(categories, hash, i) ==
  IF i > Len(categories) THEN [found |-> FALSE, category |-> ""]
  ELSE IF CategoryHash(categories[i]) = hash THEN [found |-> TRUE, category |-> categories[i]]
  ELSE CategoryScan(categories, hash, i + 1)

getCategoryFromHash(hash) == CategoryScan(intersectionCategories, hash, 1)

decryptIntersectionCountStatus(requestId, cleartexts, proof) ==
  LET categoryHash == requestToGeometryId[requestId] IN
  IF ~getCategoryFromHash(categoryHash).found THEN "Category not found"
  ELSE IF ~checkSignatures(requestId, cleartexts, proof) THEN "Proof verification failed"
  ELSE IF ~DecodeOk(abiDecodeUint32(cleartexts)) THEN "Decode error"
  ELSE "ok"

\* A faulty variant of countCallbackEvents: the decoded count is emitted.
countCallbackEventsEmitted(log, category, count) ==
  Append(log, <<"IntersectionCountDecrypted", count>>)

\* lines 136-141: category and count are locals that are dropped when the
\* function returns; no event is emitted
countCallbackEvents(log, category, count) == log

decryptIntersectionCount(requestId, cleartexts, proof) ==
  LET status == decryptIntersectionCountStatus(requestId, cleartexts, proof)
      category == getCategoryFromHash(requestToGeometryId[requestId]).category
      count == abiDecodeUint32(cleartexts).val
      call == Call("decryptIntersectionCount", status, requestId, "",
                   checkSignatures(requestId, cleartexts, proof))
  IN
  IF status # "ok"
    THEN Reverted(call)
    ELSE /\ events' = countCallbackEvents(events, category, count)
         /\ lastCall' = call
         /\ UNCHANGED <<storage, requestedHandles, now, frontendVars>>

\* lines 115-117: the view has no require; it returns the stored handle, the
\* unset one for a key that has no counter
getEncryptedIntersectionCountStatus(category) == "ok"

readEncryptedIntersectionCount(category) ==
  Reverted(Call("getEncryptedIntersectionCount",
                getEncryptedIntersectionCountStatus(category), 0, category, FALSE))

\* the arguments <<requestId, cleartexts, proof>> a callback can arrive with:
\* an attestation of the oracle with its cleartexts, for the request it was
\* made for or replayed on another request id; an attestation with other
\* cleartexts; a forged proof
CallbackInputs ==
  {<<r, p.cleartexts, p>> : r \in RequestIds, p \in OracleProofs}
    \cup {<<p.requestId, c, p>> : p \in OracleProofs, c \in SampleCleartexts}
    \cup {<<r, c, ForgedProof>> : r \in RequestIds, c \in SampleCleartexts}

Next ==
  \/ \E p \in ShapePairs :
       submitEncryptedGeometry(EncShape(p[1]), EncShape(p[2]))
  \/ \E geometryId \in GeometryIds, oracleAccepts \in BOOLEAN :
       requestGeometryDecryption(geometryId, oracleAccepts)
  \/ \E in \in CallbackInputs : decryptGeometry(in[1], in[2], in[3])
  \/ \E category \in Shapes : requestIntersectionCountDecryption(category)
  \/ \E in \in CallbackInputs : decryptIntersectionCount(in[1], in[2], in[3])
  \/ \E category \in Shapes : readEncryptedIntersectionCount(category)

Spec == Init /\ [][Next]_vars

\* The oracle's delivery of the callback of a geometry request: it calls
\* decryptGeometry (the selector given at line 69) with the request id, the
\* cleartexts it decrypted and its proof.
DeliverGeometryCallback(requestId) ==
  /\ Issued(requestId)
  /\ Len(HandlesOf(requestId)) = 2
  /\ \E c \in TrueCleartexts(requestId) :
       decryptGeometry(requestId, c, Proof("oracle", requestId, c))

\* Fair delivery: the oracle eventually delivers the callback of every
\* geometry request it accepted.
FairSpec == Spec /\ \A r \in RequestIds : WF_vars(DeliverGeometryCallback(r))

\* ------------------------------------------------------- frontend actions
\* submitRiskData (App.tsx lines 137-222) runs up to an await, and other
\* clients run while it waits.  Its awaits: setData of the record, getData of
\* "risk_data_keys", setData of "risk_data_keys".

\* line 157: a data id that no earlier call was given
freshDataId ==
  Cardinality({d \in DataIds : getData(dataStore, RiskKey(d)).length > 0}) + 1

\* lines 154-170: a call starts and its record is stored
submitRiskData_setRecord(c) ==
  /\ clients[c].pc \in {"idle", "done", "failed"}
  /\ freshDataId <= MaxSubmissions
  /\ LET dataId == freshDataId IN
       /\ dataStore' = setData(dataStore, RiskKey(dataId), toUtf8BytesOfJson(<<dataId>>))
       /\ clients' = [clients EXCEPT ![c] = ClientState("record", dataId, <<>>)]
  /\ UNCHANGED <<completed, contractVars>>

\* lines 172-183: the stored list is read, parsed, and the new id pushed on
\* the local copy
submitRiskData_getKeys(c) ==
  /\ clients[c].pc = "record"
  /\ LET keysBytes == getData(dataStore, KeysKey)
         keys == parseKeys(keysBytes)
     IN clients' = [clients EXCEPT ![c] =
          ClientState("keys", clients[c].dataId, Append(keys, clients[c].dataId))]
  /\ UNCHANGED <<dataStore, completed, contractVars>>

\* lines 185-194: the local copy is stored as the list; the call has succeeded
submitRiskData_setKeys(c) ==
  /\ clients[c].pc = "keys"
  /\ dataStore' = setData(dataStore, KeysKey, toUtf8BytesOfJson(clients[c].keys))
  /\ clients' = [clients EXCEPT ![c] = ClientState("done", clients[c].dataId, <<>>)]
  /\ completed' = completed \cup {clients[c].dataId}
  /\ UNCHANGED contractVars

\* lines 207-221: an await throws (the wallet rejects the transaction, the
\* node fails) and the call ends in the catch block
submitRiskData_throw(c) ==
  /\ clients[c].pc \in {"record", "keys"}
  /\ clients' = [clients EXCEPT ![c] = ClientState("failed", 0, <<>>)]
  /\ UNCHANGED <<dataStore, completed, contractVars>>

FrontendNext ==
  \/ \E c \in Clients : submitRiskData_setRecord(c)
  \/ \E c \in Clients : submitRiskData_getKeys(c)
  \/ \E c \in Clients : submitRiskData_setKeys(c)
  \/ \E c \in Clients : submitRiskData_throw(c)

FrontendSpec == Init /\ [][FrontendNext]_vars

\* ============================================================= properties
DecryptedEvents(id) == {i \in 1..Len(events) : events[i] = <<"GeometryDecrypted", id>>}
SubmittedEvents(id) ==
  {i \in 1..Len(events) : events[i][1] = "GeometrySubmitted" /\ events[i][2] = id}
RequestsOf(id) == {r \in RequestIds : Issued(r) /\ requestToGeometryId[r] = id}
IsCategoryRequest(r) ==
  Issued(r) /\ requestToGeometryId[r] \in {CategoryHash(c) : c \in Shapes}
Failed(op) == lastCall.op = op /\ lastCall.status # "ok"
Succeeded(op) == lastCall.op = op /\ lastCall.status = "ok"
Registered(c) == \E i \in 1..Len(intersectionCategories) : intersectionCategories[i] = c

\* C1: for every record id at most one geometry callback is ever applied: the
\* log holds at most one GeometryDecrypted(id), and a decryptGeometry call made
\* after it for a request of that id ends "Already decrypted".
C1_AtMostOneCallbackApplied ==
  \A id \in GeometryKeys :
    /\ Cardinality(DecryptedEvents(id)) <= 1
    /\ (/\ DecryptedEvents(id) # {}
        /\ lastCall.op = "decryptGeometry"
        /\ requestToGeometryId[lastCall.id] = id
        /\ events[Len(events)] # <<"GeometryDecrypted", id>>)
         => lastCall.status = "Already decrypted"

\* C2 as stated: every decryptGeometry call whose proof does not verify ends
\* "Proof verification failed".
C2_UnverifiedFailsWithProofError ==
  (lastCall.op = "decryptGeometry" /\ ~lastCall.verified)
    => lastCall.status = "Proof verification failed"

\* C2 as amended: a decryptGeometry call whose proof does not verify never
\* succeeds and changes nothing (records, counters, registry, correlation
\* table, oracle requests, events); it ends "Proof verification failed" exactly
\* when its requestId maps to a record that is not yet decrypted, and ends with
\* the error of the earlier check ("Invalid request", "Already decrypted")
\* otherwise.
C2_UnverifiedCallbackStep ==
  (lastCall'.op = "decryptGeometry" /\ ~lastCall'.verified) =>
    LET geometryId == requestToGeometryId[lastCall'.id] IN
    /\ UNCHANGED <<storage, requestedHandles, events>>
    /\ lastCall'.status =
         IF geometryId = 0 THEN "Invalid request"
         ELSE IF decryptedGeometries[geometryId].isDecrypted THEN "Already decrypted"
         ELSE "Proof verification failed"

C2_UnverifiedCallbackHasNoEffect == [][C2_UnverifiedCallbackStep]_vars

C2_Witness ==
  /\ lastCall.op = "decryptGeometry"
  /\ ~lastCall.verified
  /\ lastCall.status = "Proof verification failed"
  /\ lastCall.id \in RequestsOf(1)
  /\ geometryCount >= 1
  /\ ~decryptedGeometries[1].isDecrypted

\* C3: a decryptGeometry call with a requestId that no request of this
\* contract was given ends "Invalid request" and changes nothing.
C3_UnknownRequestStep ==
  (lastCall'.op = "decryptGeometry" /\ ~Issued(lastCall'.id)) =>
    /\ lastCall'.status = "Invalid request"
    /\ UNCHANGED <<storage, requestedHandles, events>>

C3_UnknownRequestIsInvalid == [][C3_UnknownRequestStep]_vars

C3_Witness ==
  /\ lastCall.op = "decryptGeometry"
  /\ ~Issued(lastCall.id)
  /\ lastCall.status = "Invalid request"
  /\ RequestsOf(1) # {}
  /\ geometryCount >= 1

\* C4: a decryptGeometry call whose requestId was recorded by
\* requestIntersectionCountDecryption ends "Invalid request" and changes no
\* record and no counter, whatever proof comes with it.
C4_WrongKindStep ==
  (lastCall'.op = "decryptGeometry" /\ IsCategoryRequest(lastCall'.id)) =>
    /\ lastCall'.status = "Invalid request"
    /\ UNCHANGED <<storage, requestedHandles, events>>

C4_WrongKindIsInvalidRequest == [][C4_WrongKindStep]_vars

\* C5: isDecrypted never goes from true back to false, for any record id.
C5_IsDecryptedStep ==
  \A id \in GeometryKeys :
    decryptedGeometries[id].isDecrypted => decryptedGeometries'[id].isDecrypted

C5_IsDecryptedMonotonic == [][C5_IsDecryptedStep]_vars

\* C6: in every state the counter of each category key holds the number of
\* records that are decrypted with that key.
DecryptedInto(c) ==
  {id \in GeometryKeys :
     decryptedGeometries[id].isDecrypted /\ decryptedGeometries[id].shape3D = c}

C6_CounterEqualsDecryptedRecords ==
  \A c \in Shapes : encryptedIntersectionCount[c].count = Cardinality(DecryptedInto(c))

\* C7: the registry holds every category key at most once, a key is in the
\* registry exactly when its counter is initialized, and a counter, once
\* created, stays initialized, never decreases and is never zero; the registry
\* only grows at its end.
C7_RegistryInv ==
  /\ \A i, j \in 1..Len(intersectionCategories) :
       i # j => intersectionCategories[i] # intersectionCategories[j]
  /\ \A c \in Shapes : Registered(c) <=> isInitialized(encryptedIntersectionCount[c])
  /\ \A c \in Shapes :
       isInitialized(encryptedIntersectionCount[c]) => encryptedIntersectionCount[c].count >= 1

C7_CounterStep ==
  /\ \A c \in Shapes :
       isInitialized(encryptedIntersectionCount[c]) =>
         /\ isInitialized(encryptedIntersectionCount'[c])
         /\ encryptedIntersectionCount'[c].count >= encryptedIntersectionCount[c].count
  /\ Len(intersectionCategories') >= Len(intersectionCategories)
  /\ SubSeq(intersectionCategories', 1, Len(intersectionCategories)) = intersectionCategories

C7_CounterCreatedOnce == []C7_RegistryInv /\ [][C7_CounterStep]_vars

C7_Witness ==
  \E c \in Shapes :
    /\ Registered(c)
    /\ encryptedIntersectionCount[c].count = 2
    /\ Succeeded("decryptGeometry")

\* C8: requestGeometryDecryption(id) for an id that submit never assigned
\* (0, or above geometryCount) ends "Record not found"; no oracle request is
\* issued, no pending entry recorded, no event emitted.
C8_UnknownRecordStep ==
  (/\ lastCall'.op = "requestGeometryDecryption"
   /\ (lastCall'.id = 0 \/ lastCall'.id > geometryCount)) =>
    /\ lastCall'.status = "Record not found"
    /\ UNCHANGED <<storage, requestedHandles, events>>

C8_UnknownRecordIsRejected == [][C8_UnknownRecordStep]_vars

\* C9: requestGeometryDecryption(id) on a submitted record is accepted as long
\* as no callback was applied for that id (it records a pending entry for id
\* and leaves the decryption state as it is), and ends "Already decrypted",
\* recording nothing, once a callback for that id has been applied.
C9_RequestStep ==
  (/\ lastCall'.op = "requestGeometryDecryption"
   /\ lastCall'.id \in 1..geometryCount) =>
    IF DecryptedEvents(lastCall'.id) # {}
      THEN /\ lastCall'.status = "Already decrypted"
           /\ UNCHANGED <<storage, requestedHandles, events>>
      ELSE /\ lastCall'.status = "ok"
           /\ Len(requestedHandles') = Len(requestedHandles) + 1
           /\ requestToGeometryId'[NextRequestId] = lastCall'.id
           /\ decryptedGeometries' = decryptedGeometries

C9_RequestAcceptedUntilCallback == [][C9_RequestStep]_vars

\* C10: a submitted record reads ("", "", false) through getDecryptedGeometry
\* as long as no callback was applied for it since its submission, and what
\* getDecryptedGeometry returns for a submitted record changes only by a
\* successful decryptGeometry call with a verified proof for a request of it.
AppliedSinceSubmit(id) ==
  \E i \in SubmittedEvents(id), j \in DecryptedEvents(id) : j > i

C10_EmptyInv ==
  \A id \in 1..geometryCount :
    ~AppliedSinceSubmit(id) => getDecryptedGeometry(id) = <<"", "", FALSE>>

C10_VisibleStep ==
  \A id \in 1..geometryCount :
    decryptedGeometries'[id] # decryptedGeometries[id] =>
      /\ lastCall'.op = "decryptGeometry"
      /\ lastCall'.status = "ok"
      /\ lastCall'.verified
      /\ requestToGeometryId[lastCall'.id] = id

C10_EmptyUntilValidCallback == []C10_EmptyInv /\ [][C10_VisibleStep]_vars

C10_Witness ==
  /\ geometryCount >= 1
  /\ RequestsOf(1) # {}
  /\ DecryptedEvents(1) # {}
  /\ ~AppliedSinceSubmit(1)
  /\ getDecryptedGeometry(1) = <<"", "", FALSE>>
  /\ Failed("decryptGeometry")

\* C11: record ids are assigned 1, 2, 3, ... in the order of the submits:
\* the k-th GeometrySubmitted event carries id k, geometryCount is the number
\* of submits, the records stored are exactly those of ids 1..geometryCount
\* (never 0), and geometryCount changes only by a submit, by one, to the id
\* that submit assigns.
SubmittedLog == SelectSeq(events, LAMBDA e : e[1] = "GeometrySubmitted")

C11_IdsInv ==
  /\ Len(SubmittedLog) = geometryCount
  /\ \A k \in 1..Len(SubmittedLog) : SubmittedLog[k][2] = k
  /\ \A key \in GeometryKeys :
       encryptedGeometries[key].id = (IF key \in 1..geometryCount THEN key ELSE 0)

C11_CountStep ==
  geometryCount' # geometryCount =>
    /\ lastCall'.op = "submitEncryptedGeometry"
    /\ geometryCount' = geometryCount + 1
    /\ lastCall'.id = geometryCount'

C11_IdsStrictlyMonotonic == []C11_IdsInv /\ [][C11_CountStep]_vars

C11_Witness ==
  /\ geometryCount = 2
  /\ encryptedGeometries[1].id = 1
  /\ encryptedGeometries[2].id = 2
  /\ Succeeded("decryptGeometry")

\* C12: for every submitted record, isDecrypted is true exactly when the
\* plaintext fields are non-empty.
C12_DecryptedIffPlaintext ==
  \A id \in 1..geometryCount :
    decryptedGeometries[id].isDecrypted <=>
      (decryptedGeometries[id].shape2D # "" /\ decryptedGeometries[id].shape3D # "")

\* C13: requestIntersectionCountDecryption(category) ends "Category not found"
\* and changes nothing (no oracle request, no pending entry) when the category
\* is not registered; when it is registered the call succeeds, issues one
\* oracle request for the counter and records one pending entry, the hash of
\* the category under the new request id.
C13_CountRequestStep ==
  lastCall'.op = "requestIntersectionCountDecryption" =>
    IF ~Registered(lastCall'.category)
      THEN /\ lastCall'.status = "Category not found"
           /\ UNCHANGED <<storage, requestedHandles, events>>
      ELSE /\ lastCall'.status = "ok"
           /\ requestedHandles' =
                Append(requestedHandles, <<encryptedIntersectionCount[lastCall'.category]>>)
           /\ requestToGeometryId' =
                [requestToGeometryId EXCEPT ![NextRequestId] = CategoryHash(lastCall'.category)]
           /\ UNCHANGED <<geometryCount, encryptedGeometries, decryptedGeometries,
                          encryptedIntersectionCount, intersectionCategories, events>>

C13_CountRequestNeedsCategory == [][C13_CountRequestStep]_vars

C13_Witness ==
  /\ Succeeded("requestIntersectionCountDecryption")
  /\ Registered(lastCall.category)
  /\ requestToGeometryId[Len(requestedHandles) - 1] = CategoryHash(lastCall.category)
  /\ \E c \in Shapes : ~Registered(c)

\* C14: getEncryptedIntersectionCount(category) ends "Category not found" when
\* the category was never registered.
C14_UnregisteredCountReadFails ==
  (lastCall.op = "getEncryptedIntersectionCount" /\ ~Registered(lastCall.category))
    => lastCall.status = "Category not found"

\* C15: the encrypted record of an id that submit has assigned (its id, both
\* handles, its timestamp) is changed by no later call.
C15_RecordStep ==
  \A id \in 1..geometryCount : encryptedGeometries'[id] = encryptedGeometries[id]

C15_EncryptedRecordImmutable == [][C15_RecordStep]_vars

C15_Witness ==
  /\ geometryCount = 2
  /\ AppliedSinceSubmit(1)
  /\ encryptedGeometries[1].timestamp = 1
  /\ isInitialized(encryptedGeometries[1].encryptedShape3D)
  /\ RequestsOf(2) # {}

\* C16: no individual plaintext shape can be read through the public
\* interface.  The contract records no owner of a record and checks no caller
\* (onlyParticipant is empty), so what getDecryptedGeometry returns is what
\* every party reads, of every submitted record.
C16_NoIndividualPlaintextReadable ==
  \A id \in 1..geometryCount :
    getDecryptedGeometry(id)[1] = "" /\ getDecryptedGeometry(id)[2] = ""

\* C17: in the event log, every GeometryDecrypted(id) is preceded by a
\* DecryptionRequested(id), every DecryptionRequested(id) by the
\* GeometrySubmitted(id), and GeometrySubmitted(id) and GeometryDecrypted(id)
\* each occur at most once per id.
RequestedEvents(id) == {i \in 1..Len(events) : events[i] = <<"DecryptionRequested", id>>}

C17_EventOrder ==
  \A id \in GeometryKeys :
    /\ Cardinality(SubmittedEvents(id)) <= 1
    /\ Cardinality(DecryptedEvents(id)) <= 1
    /\ \A j \in DecryptedEvents(id) : \E i \in RequestedEvents(id) : i < j
    /\ \A i \in RequestedEvents(id) : \E h \in SubmittedEvents(id) : h < i

\* C18: every id whose decryption state is not the empty one is an id of
\* 1..geometryCount with a stored encrypted record.
C18_DecryptionStatePaired ==
  \A id \in GeometryKeys :
    decryptedGeometries[id] # DecryptedGeometry("", "", FALSE) =>
      /\ id \in 1..geometryCount
      /\ encryptedGeometries[id].id = id

\* C19: a request records its geometryId under a request id not used before,
\* no call changes the entry of an issued request id, and a successful
\* callback for requestId r changes the decryption state of the record
\* recorded for r and of no other record.
C19_CorrelationStep ==
  /\ \A r \in RequestIds : Issued(r) => requestToGeometryId'[r] = requestToGeometryId[r]
  /\ (lastCall'.op = "requestGeometryDecryption" /\ lastCall'.status = "ok") =>
       /\ ~Issued(NextRequestId)
       /\ requestToGeometryId'[NextRequestId] = lastCall'.id
  /\ (lastCall'.op = "decryptGeometry" /\ lastCall'.status = "ok") =>
       LET geometryId == requestToGeometryId[lastCall'.id] IN
       /\ decryptedGeometries'[geometryId].isDecrypted
       /\ \A id \in GeometryKeys \ {geometryId} :
            decryptedGeometries'[id] = decryptedGeometries[id]

C19_CorrelationUnambiguous == [][C19_CorrelationStep]_vars

C19_Witness ==
  /\ geometryCount = 2
  /\ Len(requestedHandles) = 2
  /\ requestToGeometryId[0] = 1
  /\ requestToGeometryId[1] = 2
  /\ Succeeded("decryptGeometry")
  /\ lastCall.id = 1
  /\ decryptedGeometries[2].isDecrypted
  /\ ~decryptedGeometries[1].isDecrypted

\* C20: a successful callback adds exactly one to the counter keyed by the 3D
\* shape it decoded (the counter starts from zero when it does not exist and
\* the key is then appended to the registry) and leaves every other counter
\* and the rest of the registry as they were.
C20_CategoryStep ==
  (lastCall'.op = "decryptGeometry" /\ lastCall'.status = "ok") =>
    LET geometryId == requestToGeometryId[lastCall'.id]
        category == decryptedGeometries'[geometryId].shape3D
        before == IF isInitialized(encryptedIntersectionCount[category])
                    THEN encryptedIntersectionCount[category].count
                    ELSE 0
    IN
    /\ category \in {c.strs[2] : c \in TrueCleartexts(lastCall'.id)}
    /\ isInitialized(encryptedIntersectionCount'[category])
    /\ encryptedIntersectionCount'[category].count = before + 1
    /\ \A other \in Shapes \ {category} :
         encryptedIntersectionCount'[other] = encryptedIntersectionCount[other]
    /\ intersectionCategories' =
         IF Registered(category) THEN intersectionCategories
         ELSE Append(intersectionCategories, category)

C20_CategoryIsShape3D == [][C20_CategoryStep]_vars

C20_Witness ==
  /\ Succeeded("decryptGeometry")
  /\ encryptedIntersectionCount["Y"].count = 1
  /\ encryptedIntersectionCount[""].count = 1
  /\ ~isInitialized(encryptedIntersectionCount["X"])
  /\ decryptedGeometries[requestToGeometryId[lastCall.id]].shape2D = "X"

\* C21: a decryptIntersectionCount call, whether it succeeds or fails, changes
\* no record, no decryption state, no counter, neither the registry nor the
\* correlation table, issues no oracle request and emits no event: the decoded
\* count is kept nowhere.
C21_CountCallbackStep ==
  lastCall'.op = "decryptIntersectionCount" =>
    UNCHANGED <<storage, requestedHandles, events, now>>

C21_CountCallbackChangesNothing == [][C21_CountCallbackStep]_vars

C21_Witness ==
  /\ Succeeded("decryptIntersectionCount")
  /\ lastCall.verified
  /\ IsCategoryRequest(lastCall.id)
  /\ Registered("Y")
  /\ requestToGeometryId[lastCall.id] = CategoryHash("Y")

\* C22: a decryptIntersectionCount call with a requestId that no
\* requestIntersectionCountDecryption recorded (never issued, or issued for a
\* geometry decryption) ends "Invalid request" and changes nothing.
C22_UnknownCountRequestStep ==
  (lastCall'.op = "decryptIntersectionCount" /\ ~IsCategoryRequest(lastCall'.id)) =>
    /\ lastCall'.status = "Invalid request"
    /\ UNCHANGED <<storage, requestedHandles, events>>

C22_UnknownCountRequestIsInvalid == [][C22_UnknownCountRequestStep]_vars

\* What the code does for such a call: it ends "Category not found", the
\* error of the registry scan, and changes nothing.
C22_RejectedStep ==
  (lastCall'.op = "decryptIntersectionCount" /\ ~IsCategoryRequest(lastCall'.id)) =>
    /\ lastCall'.status = "Category not found"
    /\ UNCHANGED <<storage, requestedHandles, events>>

C22_UnknownCountRequestIsRejected == [][C22_RejectedStep]_vars

\* C23: the entry a request records in the correlation table is written once:
\* a request (of either kind) writes the entry of a request id that was not
\* issued before, and no later call (request, callback, submit) changes or
\* deletes the entry of an issued request id; an issued request id of a
\* geometry request (two handles) resolves to a record id and one of a count
\* request (one handle) to the hash of a category, and the entries of request
\* ids not yet issued are empty.
C23_TableInv ==
  \A r \in RequestIds :
    IF ~Issued(r) THEN requestToGeometryId[r] = 0
    ELSE IF Len(HandlesOf(r)) = 2 THEN requestToGeometryId[r] \in GeometryIds
    ELSE requestToGeometryId[r] \in {CategoryHash(c) : c \in Shapes}

C23_TableStep ==
  /\ \A r \in RequestIds : Issued(r) => requestToGeometryId'[r] = requestToGeometryId[r]
  /\ requestToGeometryId' # requestToGeometryId =>
       /\ lastCall'.status = "ok"
       /\ lastCall'.op \in {"requestGeometryDecryption", "requestIntersectionCountDecryption"}
       /\ Len(requestedHandles') = Len(requestedHandles) + 1
       /\ requestToGeometryId'[NextRequestId] =
            (IF lastCall'.op = "requestGeometryDecryption" THEN lastCall'.id
             ELSE CategoryHash(lastCall'.category))

C23_PendingEntriesWriteOnce == []C23_TableInv /\ [][C23_TableStep]_vars

C23_Witness ==
  /\ Len(requestedHandles) = 2
  /\ requestToGeometryId[0] = 1
  /\ requestToGeometryId[1] = CategoryHash("Y")
  /\ Succeeded("submitEncryptedGeometry")
  /\ geometryCount = 2
  /\ decryptedGeometries[1].isDecrypted

\* C24: under fair delivery, every id for which a requestGeometryDecryption
\* call was accepted eventually has isDecrypted = true: an accepted request has
\* no dead end.
C24_AcceptedRequestIsDecrypted ==
  \A id \in GeometryIds :
    (RequestsOf(id) # {}) ~> decryptedGeometries[id].isDecrypted

\* The same for the ids that submit assigns (1, 2, ...): it holds.
C24_AcceptedRecordIsDecrypted ==
  \A id \in GeometryIds \ {0} :
    (RequestsOf(id) # {}) ~> decryptedGeometries[id].isDecrypted

\* C25: the data id of every submitRiskData call that completed is in the
\* stored list "risk_data_keys" (so no completed call removes the id of
\* another), and every id in the stored list has a stored "risk_<id>" entry.
ListedKeys ==
  LET keys == parseKeys(getData(dataStore, KeysKey)) IN {keys[i] : i \in 1..Len(keys)}

C25_AllSubmissionsRetained ==
  /\ completed \subseteq ListedKeys
  /\ \A d \in ListedKeys : getData(dataStore, RiskKey(d)).length > 0

====
